---- MODULE Spec2Model ----
(***************************************************************************)
(* ALEX Terminal: the control-API client, the health check worker, the     *)
(* autonomous poller, the persisted voice flag and the voice workers.      *)
(*                                                                         *)
(* Python values are modelled as strings: PyNone is None, Absent marks a   *)
(* key that a dict does not hold, "" is the empty string.                  *)
(***************************************************************************)
EXTENDS Integers, Sequences, FiniteSets, TLC

VARIABLES
    httpOutcome,    \* alex_client: what requests.post does for the call in flight
    sendPc,         \* alex_client: "off" | "call" | "done"
    sendResult,     \* alex_client: the pair send_message returned
    hRetries,       \* HealthCheckWorker.retries
    hI,             \* HealthCheckWorker.run: loop variable i
    hPc,            \* HealthCheckWorker.run: "off" | "loop" | "check" | "test" | "emitFailed" | "done"
    hResult,        \* HealthCheckWorker.run: local variable result
    hLog,           \* HealthCheckWorker.run: calls, delays and signals, in order
    queueFile,      \* ~/.alex/terminal-queue.json: [kind, items]
    queueWritable,  \* whether QUEUE_FILE.write_text succeeds
    pRunning,       \* AutonomousPoller._running
    pStopped,       \* stop() has been called
    pPc,            \* AutonomousPoller.run / _poll: position of the poller thread
    pData,          \* _poll: local variable data (the list read from the file)
    pTicks,         \* number of ticks begun
    tickFile,       \* queueFile as it was when the current tick began
    tickRemote,     \* what get_terminal_messages did in the current tick
    tickEvents,     \* message_received events emitted in the current tick
    configFile,     \* ~/.alex/terminal-config.json: [kind, voice]
    voice_on,       \* AlexTerminal.voice_on
    toggles,        \* the toggles made so far: who, how the save went, values
    apiKey,         \* os.getenv("OPENAI_API_KEY") is set
    installed,      \* the external programs present on the system
    ttsPc,          \* TTSWorker.run: position
    ttsTmp,         \* TTSWorker.run: the temporary .mp3: "none" | "exists" | "deleted"
    ttsExc,         \* TTSWorker.run: the exception in flight, PyNone when none
    ttsTried,       \* TTSWorker.run: the players run and how each ended
    ttsSignals,     \* TTSWorker: signals emitted, in order
    sttPc,          \* STTWorker.run: position
    sttTmp,         \* STTWorker.run: the temporary .wav: "none" | "exists" | "gone" | "deleted"
    sttSize,        \* size in bytes of the temporary .wav
    sttReturn,      \* STTWorker.run: result.returncode
    sttExc,         \* STTWorker.run: the exception in flight, PyNone when none
    sttCalls,       \* number of calls of the transcription endpoint
    sttSignals,     \* STTWorker: signals emitted, in order
    fetchWhich,     \* alex_client: the GET method called: "health_check" | "get_terminal_messages"
    fetchOutcome,   \* alex_client: what requests.get does for the call in flight
    fetchPc,        \* alex_client: "off" | "call" | "done"
    fetchResult,    \* alex_client: [raised, value] of the call
    uiPc,           \* AlexTerminal: "off" | "open" | closeEvent's position | "closed"
                    \* | "aborted"
    markerFile,     \* ~/.alex/terminal-active exists
    inputEnabled,   \* input_field and send_btn are enabled
    micEnabled,     \* mic_btn is enabled
    uiQueue,        \* signals queued for the UI thread, oldest first
    cmd_worker,     \* AlexTerminal._cmd_worker: index in cmdWorkers, 0 for None
    cmdWorkers,     \* the CommandWorkers created: [state, emitted, handled]
    tts_worker,     \* AlexTerminal._tts_worker: index in ttsWorkers, 0 for None
    ttsWorkers,     \* the TTSWorkers created: "running" | "finished"
    stt_worker,     \* AlexTerminal._stt_worker: index in sttWorkers, 0 for None
    sttWorkers,     \* the STTWorkers created: [state, todo]
    health_worker,  \* AlexTerminal._health_worker: index in healthWorkers, 0 for None
    healthWorkers,  \* the HealthCheckWorkers created: [kind, state, signalled]
    pollers,        \* number of AutonomousPollers created and started
    poller,         \* AlexTerminal._poller: "none" | "running" | "stopping" | "exited"
    autoCount,      \* number of message_received signals the poller has emitted
    micLabel,       \* mic_btn's text
    appended        \* number of ALEX messages appended to the chat (_append_alex)

clientVars == <<httpOutcome, sendPc, sendResult>>
healthVars == <<hRetries, hI, hPc, hResult, hLog>>
pollerVars == <<queueFile, queueWritable, pRunning, pStopped, pPc, pData, pTicks,
                tickFile, tickRemote, tickEvents>>
configVars == <<configFile, voice_on, toggles>>
envVars == <<apiKey, installed>>
ttsVars == <<ttsPc, ttsTmp, ttsExc, ttsTried, ttsSignals>>
sttVars == <<sttPc, sttTmp, sttSize, sttReturn, sttExc, sttCalls, sttSignals>>
voiceVars == <<envVars, ttsVars, sttVars>>
fetchVars == <<fetchWhich, fetchOutcome, fetchPc, fetchResult>>
uiVars == <<uiPc, markerFile, inputEnabled, micEnabled, uiQueue, cmd_worker, cmdWorkers,
            tts_worker, ttsWorkers, stt_worker, sttWorkers, health_worker, poller,
            autoCount, micLabel, appended, healthWorkers, pollers>>
vars == <<httpOutcome, sendPc, sendResult, hRetries, hI, hPc, hResult, hLog,
          queueFile, queueWritable, pRunning, pStopped, pPc, pData, pTicks,
          tickFile, tickRemote, tickEvents, configFile, voice_on, toggles,
          apiKey, installed, ttsPc, ttsTmp, ttsExc, ttsTried, ttsSignals,
          sttPc, sttTmp, sttSize, sttReturn, sttExc, sttCalls, sttSignals,
          fetchWhich, fetchOutcome, fetchPc, fetchResult,
          uiPc, markerFile, inputEnabled, micEnabled, uiQueue, cmd_worker, cmdWorkers,
          tts_worker, ttsWorkers, stt_worker, sttWorkers, health_worker, poller,
          autoCount, micLabel, appended, healthWorkers, pollers>>

PyNone == "<None>"
Absent == "<absent>"

PyTrue  == "True"
PyFalse == "False"

\* Python truthiness of the values the model uses.
Truthy(v) == v \notin {PyNone, Absent, "", PyFalse, "{}"}

\* not v
PyNot(v) == IF Truthy(v) THEN PyFalse ELSE PyTrue

\* dict.get(key, default) on a dict modelled as a record of values or Absent.
DictGet(d, key, default) == IF d[key] = Absent THEN default ELSE d[key]

(***************************************************************************)
(* alex_client.py                                                          *)
(***************************************************************************)

Statuses == {200, 404, 500}

\* f"HTTP {resp.status_code}"
StatusText(s) ==
    CASE s = 200 -> "HTTP 200"
      [] s = 404 -> "HTTP 404"
      [] s = 500 -> "HTTP 500"

SuccessValues  == {Absent, PyTrue, PyFalse}
ResponseValues == {Absent, PyNone, "", "hello"}
ErrorValues    == {Absent, PyNone, "", "bad request"}

\* The outcomes of requests.post(...) followed by resp.json().
PostOutcomes ==
    [kind : {"timeout", "connerr", "exc"}, status : {0}, json : {"none"},
     data : {[success |-> Absent, response |-> Absent, error |-> Absent]}]
    \cup
    [kind : {"resp"}, status : Statuses, json : {"notjson", "list"},
     data : {[success |-> Absent, response |-> Absent, error |-> Absent]}]
    \cup
    [kind : {"resp"}, status : Statuses, json : {"obj"},
     data : [success : SuccessValues, response : ResponseValues, error : ErrorValues]]

\* AlexClient.send_message: the pair (response_text, error_string).
SendMessage(o) ==
    CASE o.kind = "timeout" -> <<PyNone, "Request timed out">>
      [] o.kind = "connerr" -> <<PyNone, "Cannot connect to ALEX">>
      [] o.kind = "exc"     -> <<PyNone, "Exceeded 30 redirects.">>
      [] o.kind = "resp" /\ o.json = "notjson" ->
            <<PyNone, "Expecting value: line 1 column 1 (char 0)">>
      [] o.kind = "resp" /\ o.json = "list" ->
            <<PyNone, "'list' object has no attribute 'get'">>
      [] o.kind = "resp" /\ o.json = "obj" ->
            IF o.status = 200 /\ Truthy(DictGet(o.data, "success", PyNone))
            THEN <<DictGet(o.data, "response", ""), PyNone>>
            ELSE <<PyNone, DictGet(o.data, "error", StatusText(o.status))>>

ClientOff ==
    /\ httpOutcome = [kind |-> "none"]
    /\ sendPc = "off"
    /\ sendResult = <<PyNone, PyNone>>

ClientInit ==
    /\ httpOutcome \in PostOutcomes
    /\ sendPc = "call"
    /\ sendResult = <<PyNone, PyNone>>

SendMessageCall ==
    /\ sendPc = "call"
    /\ sendResult' = SendMessage(httpOutcome)
    /\ sendPc' = "done"
    /\ UNCHANGED httpOutcome

\* The outcomes of requests.get(.../api/health) followed by resp.json().
HealthOutcomes ==
    [kind : {"reqexc"}, status : {0}, json : {"none"}]
    \cup [kind : {"resp"}, status : {200, 503}, json : {"notjson", "{}", "snapshot"}]

\* AlexClient.health_check: the parsed payload or None.
HealthCheck(o) ==
    IF o.kind = "resp" /\ o.status = 200 /\ o.json # "notjson"
    THEN o.json
    ELSE PyNone

(***************************************************************************)
(* alex_terminal.py: HealthCheckWorker                                     *)
(***************************************************************************)

MaxRetries == 3

HealthOff ==
    /\ hRetries = 0
    /\ hI = 0
    /\ hPc = "off"
    /\ hResult = PyNone
    /\ hLog = <<>>

HealthInit ==
    /\ hRetries \in 0..MaxRetries
    /\ hI = 0
    /\ hPc = "loop"
    /\ hResult = PyNone
    /\ hLog = <<>>

\* range(self.retries + 1): one attempt too many
RangeHasNextOffByOne(i, n) == i <= n

\* for i in range(self.retries): is there a next i?
RangeHasNext(i, n) == i < n

\* if i < self.retries - 1: a delay follows this attempt
DelayFollows(i, n) == i < n - 1

\* for i in range(self.retries)
HealthLoop ==
    /\ hPc = "loop"
    /\ hPc' = IF RangeHasNext(hI, hRetries) THEN "check" ELSE "emitFailed"
    /\ UNCHANGED <<hRetries, hI, hResult, hLog>>

\* result = self.client.health_check()
HealthCall ==
    /\ hPc = "check"
    /\ \E o \in HealthOutcomes :
          /\ hResult' = HealthCheck(o)
          /\ hLog' = Append(hLog, [ev |-> "call", val |-> HealthCheck(o)])
    /\ hPc' = "test"
    /\ UNCHANGED <<hRetries, hI>>

\* if result: self.connected.emit(result), with the return left out
HealthConnectedNoReturn ==
    /\ hPc = "test"
    /\ Truthy(hResult)
    /\ hLog' = Append(hLog, [ev |-> "connected", val |-> hResult])
    /\ hI' = hI + 1
    /\ hPc' = "loop"
    /\ UNCHANGED <<hRetries, hResult>>

\* if result: self.connected.emit(result); return
HealthConnected ==
    /\ hPc = "test"
    /\ Truthy(hResult)
    /\ hLog' = Append(hLog, [ev |-> "connected", val |-> hResult])
    /\ hPc' = "done"
    /\ UNCHANGED <<hRetries, hI, hResult>>

\* if i < self.retries - 1: time.sleep(self.delay); then the next i
HealthRetry ==
    /\ hPc = "test"
    /\ ~Truthy(hResult)
    /\ hLog' = IF DelayFollows(hI, hRetries)
               THEN Append(hLog, [ev |-> "sleep", val |-> PyNone])
               ELSE hLog
    /\ hI' = hI + 1
    /\ hPc' = "loop"
    /\ UNCHANGED <<hRetries, hResult>>

\* self.failed.emit()
HealthFailed ==
    /\ hPc = "emitFailed"
    /\ hLog' = Append(hLog, [ev |-> "failed", val |-> PyNone])
    /\ hPc' = "done"
    /\ UNCHANGED <<hRetries, hI, hResult>>

(***************************************************************************)
(* autonomous.py: AutonomousPoller                                         *)
(***************************************************************************)

MaxQueue == 2
MaxTicks == 2

\* An element of a JSON list: a JSON object with optional title / body / text,
\* or a value that is not an object (a number, a string, null).
NotAnObject == [obj |-> FALSE, title |-> Absent, body |-> Absent, text |-> Absent]
JsonObjects == [obj : {TRUE}, title : {Absent, "t1"}, body : {Absent, "", "b1"},
                text : {Absent, "x1"}]
JsonElements == JsonObjects \cup {NotAnObject}

ListsOf(S, n) == UNION {[1..k -> S] : k \in 0..n}

\* The states of the queue file.
\*   absent       QUEUE_FILE.exists() is false
\*   unreadable   read_text raises OSError
\*   undecodable  read_text raises UnicodeDecodeError (bytes that are not text)
\*   notjson      json.loads raises JSONDecodeError
\*   nonlist      a JSON value that is not a list
\*   list         a JSON list of items
QueueFiles ==
    [kind : {"absent", "unreadable", "undecodable", "notjson", "nonlist"}, items : {<<>>}]
    \cup [kind : {"list"}, items : ListsOf(JsonElements, MaxQueue)]

EmptyList == [kind |-> "list", items |-> <<>>]

\* What self._client.get_terminal_messages() does: it raises, or it returns
\* the value of the 'messages' key (a list, or something that is not a list).
RemoteElements == {NotAnObject,
                   [obj |-> TRUE, title |-> "t1", body |-> "b1", text |-> Absent],
                   [obj |-> TRUE, title |-> Absent, body |-> Absent, text |-> "x1"]}
RemoteResults ==
    [kind : {"raise", "nonlist"}, items : {<<>>}]
    \cup [kind : {"list"}, items : ListsOf(RemoteElements, MaxQueue)]

\* body = msg.get("body", msg.get("text", "")), text looked up first
MsgBodyTextFirst(m) == DictGet(m, "text", DictGet(m, "body", ""))

\* title = msg.get("title", "ALEX")
MsgTitle(m) == DictGet(m, "title", "ALEX")

\* body = msg.get("body", msg.get("text", ""))
MsgBody(m) == DictGet(m, "body", DictGet(m, "text", ""))

\* for msg in items: ...; if body: self.message_received.emit(title, body)
\* msg.get raises AttributeError on an element that is not an object; the
\* events emitted before it stay emitted.
RECURSIVE EmitAll(_, _)
EmitAll(items, src) ==
    IF items = <<>> THEN [events |-> <<>>, raised |-> FALSE]
    ELSE IF ~Head(items).obj THEN [events |-> <<>>, raised |-> TRUE]
    ELSE LET rest == EmitAll(Tail(items), src)
             ev   == [src |-> src, title |-> MsgTitle(Head(items)),
                      body |-> MsgBody(Head(items))]
         IN  [events |-> (IF Truthy(MsgBody(Head(items))) THEN <<ev>> ELSE <<>>)
                          \o rest.events,
              raised |-> rest.raised]

PollerOff ==
    /\ queueFile = [kind |-> "absent", items |-> <<>>]
    /\ queueWritable = TRUE
    /\ pRunning = FALSE
    /\ pStopped = FALSE
    /\ pPc = "off"
    /\ pData = <<>>
    /\ pTicks = 0
    /\ tickFile = [kind |-> "absent", items |-> <<>>]
    /\ tickRemote = [kind |-> "list", items |-> <<>>]
    /\ tickEvents = <<>>

\* The poller thread has been started and has not yet run its first statement.
PollerInit ==
    /\ queueFile \in QueueFiles
    /\ queueWritable \in BOOLEAN
    /\ pRunning = FALSE
    /\ pStopped = FALSE
    /\ pPc = "run"
    /\ pData = <<>>
    /\ pTicks = 0
    /\ tickFile = [kind |-> "absent", items |-> <<>>]
    /\ tickRemote = [kind |-> "list", items |-> <<>>]
    /\ tickEvents = <<>>

\* run: self._running = True
PollerRun ==
    /\ pPc = "run"
    /\ pRunning' = TRUE
    /\ pPc' = "while"
    /\ UNCHANGED <<queueFile, queueWritable, pStopped, pData, pTicks,
                   tickFile, tickRemote, tickEvents>>

\* run: while self._running: self._poll()  -- a tick begins
PollerTickBegin ==
    /\ pPc = "while"
    /\ pRunning
    /\ pTicks < MaxTicks
    /\ pTicks' = pTicks + 1
    /\ tickFile' = queueFile
    /\ tickRemote' = [kind |-> "list", items |-> <<>>]
    /\ tickEvents' = <<>>
    /\ pData' = <<>>
    /\ pPc' = "remote"
    /\ UNCHANGED <<queueFile, queueWritable, pRunning, pStopped>>

\* run: while self._running  -- the loop sees the stop request and ends
PollerExit ==
    /\ pPc = "while"
    /\ ~pRunning
    /\ pPc' = "exited"
    /\ UNCHANGED <<queueFile, queueWritable, pRunning, pStopped, pData, pTicks,
                   tickFile, tickRemote, tickEvents>>

\* _poll, step 1: the remote messages; every exception is swallowed.
PollRemote ==
    /\ pPc = "remote"
    /\ \E r \in RemoteResults :
          /\ tickRemote' = r
          /\ tickEvents' = IF r.kind = "list"
                           THEN tickEvents \o EmitAll(r.items, "remote").events
                           ELSE tickEvents
    /\ pPc' = "fileRead"
    /\ UNCHANGED <<queueFile, queueWritable, pRunning, pStopped, pData, pTicks, tickFile>>

\* _poll, step 2 with the overwrite left for after the emits
PollFileReadEmitFirst ==
    /\ pPc = "fileRead"
    /\ pData' = IF queueFile.kind = "list" THEN queueFile.items ELSE <<>>
    /\ pPc' = CASE queueFile.kind = "undecodable" -> "crashed"
                [] queueFile.kind = "list" /\ queueFile.items # <<>> -> "fileEmit"
                [] OTHER -> "sleep"
    /\ UNCHANGED <<queueFile, queueWritable, pRunning, pStopped, pTicks,
                   tickFile, tickRemote, tickEvents>>

\* _poll, step 2: if QUEUE_FILE.exists(): data = json.loads(QUEUE_FILE.read_text())
\*                  if isinstance(data, list) and data: ...
\* JSONDecodeError and OSError are swallowed, UnicodeDecodeError is not.
PollFileRead ==
    /\ pPc = "fileRead"
    /\ pData' = IF queueFile.kind = "list" THEN queueFile.items ELSE <<>>
    /\ pPc' = CASE queueFile.kind = "undecodable" -> "crashed"
                [] queueFile.kind = "list" /\ queueFile.items # <<>> -> "fileClear"
                [] OTHER -> "sleep"
    /\ UNCHANGED <<queueFile, queueWritable, pRunning, pStopped, pTicks,
                   tickFile, tickRemote, tickEvents>>

\* _poll: QUEUE_FILE.write_text("[]"); an OSError ends the tick.
PollFileClear ==
    /\ pPc = "fileClear"
    /\ queueFile' = IF queueWritable THEN EmptyList ELSE queueFile
    /\ pPc' = IF queueWritable THEN "fileEmit" ELSE "sleep"
    /\ UNCHANGED <<queueWritable, pRunning, pStopped, pData, pTicks,
                   tickFile, tickRemote, tickEvents>>

\* _poll: for msg in data: ... emit; AttributeError is not caught and ends run().
PollFileEmit ==
    /\ pPc = "fileEmit"
    /\ tickEvents' = tickEvents \o EmitAll(pData, "file").events
    /\ pPc' = IF EmitAll(pData, "file").raised THEN "crashed" ELSE "sleep"
    /\ UNCHANGED <<queueFile, queueWritable, pRunning, pStopped, pData, pTicks,
                   tickFile, tickRemote>>

\* run: self.msleep(POLL_INTERVAL_MS)
PollerSleep ==
    /\ pPc = "sleep"
    /\ pPc' = "while"
    /\ UNCHANGED <<queueFile, queueWritable, pRunning, pStopped, pData, pTicks,
                   tickFile, tickRemote, tickEvents>>

\* stop(), called from the UI thread: self._running = False
PollerStop ==
    /\ pPc # "off"
    /\ ~pStopped
    /\ pRunning' = FALSE
    /\ pStopped' = TRUE
    /\ UNCHANGED <<queueFile, queueWritable, pPc, pData, pTicks,
                   tickFile, tickRemote, tickEvents>>

(***************************************************************************)
(* voice_engine.py: the persisted voice flag; alex_terminal.py: its toggles *)
(***************************************************************************)

MaxToggles == 3

\* json.dumps / json.loads of a boolean
JsonDumps(v) == IF v = PyTrue THEN "true" ELSE "false"
JsonLoads(t) == IF t = "true" THEN PyTrue ELSE PyFalse

\* The states of the configuration file.
\*   absent    CONFIG_FILE.exists() is false
\*   corrupt   reading or parsing the file raises
\*   object    a JSON object; voice is the JSON text of its voice_enabled
\*             member, or Absent when it has none
ConfigFiles ==
    [kind : {"absent", "corrupt"}, voice : {Absent}]
    \cup [kind : {"object"}, voice : {Absent, "true", "false"}]

\* How _save_config can go: the file is written; mkdir or open fails and the
\* file stays as it was; the file is opened (and so truncated) and the write
\* fails.  Every exception is swallowed.
SaveOutcomes == {"ok", "failed", "truncated"}

\* _load_config: the parsed object, {} when the file is absent or unreadable.
LoadConfig(f) ==
    IF f.kind = "object" /\ f.voice # Absent
    THEN [voice_enabled |-> JsonLoads(f.voice)]
    ELSE [voice_enabled |-> Absent]

\* _save_config(data)
SaveConfig(f, data, outcome) ==
    CASE outcome = "ok" ->
            [kind |-> "object",
             voice |-> IF data.voice_enabled = Absent THEN Absent
                       ELSE JsonDumps(data.voice_enabled)]
      [] outcome = "failed" -> f
      [] outcome = "truncated" -> [kind |-> "corrupt", voice |-> Absent]

\* get_voice_enabled: _load_config().get("voice_enabled", True)
GetVoiceEnabled(f) == DictGet(LoadConfig(f), "voice_enabled", PyTrue)

\* set_voice_enabled without the assignment cfg["voice_enabled"] = enabled
SetVoiceEnabledNoAssign(f, enabled, outcome) == SaveConfig(f, LoadConfig(f), outcome)

\* set_voice_enabled(enabled)
SetVoiceEnabled(f, enabled, outcome) ==
    SaveConfig(f, [LoadConfig(f) EXCEPT !.voice_enabled = enabled], outcome)

ConfigOff ==
    /\ configFile = [kind |-> "absent", voice |-> Absent]
    /\ voice_on = PyTrue
    /\ toggles = <<>>

\* AlexTerminal.__init__: self.voice_on = get_voice_enabled()
ConfigInit ==
    /\ configFile \in ConfigFiles
    /\ voice_on = GetVoiceEnabled(configFile)
    /\ toggles = <<>>

\* self.voice_on = not self.voice_on; set_voice_enabled(self.voice_on)
ToggleVoice(outcome) ==
    /\ voice_on' = PyNot(voice_on)
    /\ configFile' = SetVoiceEnabled(configFile, PyNot(voice_on), outcome)

\* a toggle, recorded in toggles
Toggle(by) ==
    /\ Len(toggles) < MaxToggles
    /\ \E outcome \in SaveOutcomes :
          /\ ToggleVoice(outcome)
          /\ toggles' = Append(toggles,
                 [by |-> by, save |-> outcome,
                  before |-> GetVoiceEnabled(configFile),
                  after |-> GetVoiceEnabled(configFile'),
                  mem |-> voice_on'])

\* AlexTerminal._on_voice_toggle
OnVoiceToggle == Toggle("button")

\* AlexTerminal._handle_command, command == "/voice"
HandleVoiceCommand == Toggle("/voice")

(***************************************************************************)
(* voice_engine.py: TTSWorker                                              *)
(***************************************************************************)

Programs == {"mpg123", "ffplay", "arecord"}

NoKeyMsg    == "OpenAI API key not configured"
NoPlayerMsg == "No audio player found (install mpg123 or ffmpeg)"

Signal(sig, msg) == [sig |-> sig, msg |-> msg, text |-> <<>>]

\* How subprocess.run([player, ...], check=True, timeout=60) can end.
PlayerResults(player) ==
    IF player \in installed THEN {"ok", "nonzero", "timeout"} ELSE {"notfound"}

\* str(e) of what subprocess.run raises
PlayerExc(player, result) ==
    CASE result = "nonzero" -> "Command returned non-zero exit status 1."
      [] result = "timeout" -> "Command timed out after 60 seconds"
      [] OTHER -> PyNone

EnvOff ==
    /\ apiKey = FALSE
    /\ installed = {}

EnvInit ==
    /\ apiKey \in BOOLEAN
    /\ installed \in SUBSET Programs

TtsOff ==
    /\ ttsPc = "off"
    /\ ttsTmp = "none"
    /\ ttsExc = PyNone
    /\ ttsTried = <<>>
    /\ ttsSignals = <<>>

\* A TTSWorker has been started.
TtsInit ==
    /\ ttsPc = "start"
    /\ ttsTmp = "none"
    /\ ttsExc = PyNone
    /\ ttsTried = <<>>
    /\ ttsSignals = <<>>

\* api_key = os.getenv(...); if not api_key: self.error.emit(...); return
TtsStart ==
    /\ ttsPc = "start"
    /\ IF apiKey
       THEN /\ ttsPc' = "synth"
            /\ UNCHANGED ttsSignals
       ELSE /\ ttsPc' = "done"
            /\ ttsSignals' = Append(ttsSignals, Signal("error", NoKeyMsg))
    /\ UNCHANGED <<ttsTmp, ttsExc, ttsTried>>

\* response = self._client.audio.speech.create(...): audio, or an exception
TtsSynth ==
    /\ ttsPc = "synth"
    /\ \E ok \in BOOLEAN :
          IF ok
          THEN /\ ttsPc' = "tmp"
               /\ UNCHANGED ttsExc
          ELSE /\ ttsPc' = "except"
               /\ ttsExc' = "Connection error."
    /\ UNCHANGED <<ttsTmp, ttsTried, ttsSignals>>

\* tmp = tempfile.NamedTemporaryFile(suffix=".mp3", delete=False)
\* tmp.write(response.content); tmp.close()  -- the write may raise OSError
TtsWrite ==
    /\ ttsPc = "tmp"
    /\ ttsTmp' = "exists"
    /\ \E ok \in BOOLEAN :
          IF ok
          THEN /\ ttsPc' = "mpg123"
               /\ UNCHANGED ttsExc
          ELSE /\ ttsPc' = "finally"
               /\ ttsExc' = "[Errno 28] No space left on device"
    /\ UNCHANGED <<ttsTried, ttsSignals>>

\* the primary player with "except FileNotFoundError" only: a non-zero exit
\* propagates instead of leading to the fallback
TtsMpg123NoFallbackOnExit ==
    /\ ttsPc = "mpg123"
    /\ \E r \in PlayerResults("mpg123") :
          /\ ttsTried' = Append(ttsTried, [player |-> "mpg123", result |-> r])
          /\ ttsPc' = IF r = "notfound" THEN "ffplay" ELSE "finally"
          /\ ttsExc' = PlayerExc("mpg123", r)
    /\ UNCHANGED <<ttsTmp, ttsSignals>>

\* subprocess.run(["mpg123", ...]); FileNotFoundError and CalledProcessError
\* lead to the fallback, TimeoutExpired propagates.
TtsMpg123 ==
    /\ ttsPc = "mpg123"
    /\ \E r \in PlayerResults("mpg123") :
          /\ ttsTried' = Append(ttsTried, [player |-> "mpg123", result |-> r])
          /\ ttsPc' = IF r \in {"notfound", "nonzero"} THEN "ffplay" ELSE "finally"
          /\ ttsExc' = IF r = "timeout" THEN PlayerExc("mpg123", r) ELSE PyNone
    /\ UNCHANGED <<ttsTmp, ttsSignals>>

\* the fallback with "except FileNotFoundError: pass"
TtsFfplaySilent ==
    /\ ttsPc = "ffplay"
    /\ \E r \in PlayerResults("ffplay") :
          /\ ttsTried' = Append(ttsTried, [player |-> "ffplay", result |-> r])
          /\ ttsExc' = PlayerExc("ffplay", r)
          /\ UNCHANGED ttsSignals
    /\ ttsPc' = "finally"
    /\ UNCHANGED ttsTmp

\* subprocess.run(["ffplay", ...]); FileNotFoundError is reported,
\* CalledProcessError and TimeoutExpired propagate.
TtsFfplay ==
    /\ ttsPc = "ffplay"
    /\ \E r \in PlayerResults("ffplay") :
          /\ ttsTried' = Append(ttsTried, [player |-> "ffplay", result |-> r])
          /\ ttsExc' = PlayerExc("ffplay", r)
          /\ ttsSignals' = IF r = "notfound"
                           THEN Append(ttsSignals, Signal("error", NoPlayerMsg))
                           ELSE ttsSignals
    /\ ttsPc' = "finally"
    /\ UNCHANGED ttsTmp

\* the unlink placed after the try block instead of in its finally clause
TtsFinallyOnSuccessOnly ==
    /\ ttsPc = "finally"
    /\ ttsTmp' = IF ttsTmp = "exists" /\ ttsExc = PyNone THEN "deleted" ELSE ttsTmp
    /\ ttsPc' = IF ttsExc = PyNone THEN "finished" ELSE "except"
    /\ UNCHANGED <<ttsExc, ttsTried, ttsSignals>>

\* finally: if os.path.exists(tmp_path): os.unlink(tmp_path)
TtsFinally ==
    /\ ttsPc = "finally"
    /\ ttsTmp' = IF ttsTmp = "exists" THEN "deleted" ELSE ttsTmp
    /\ ttsPc' = IF ttsExc = PyNone THEN "finished" ELSE "except"
    /\ UNCHANGED <<ttsExc, ttsTried, ttsSignals>>

\* self.finished.emit()
TtsFinished ==
    /\ ttsPc = "finished"
    /\ ttsSignals' = Append(ttsSignals, Signal("finished", ""))
    /\ ttsPc' = "done"
    /\ UNCHANGED <<ttsTmp, ttsExc, ttsTried>>

\* except Exception as e: self.error.emit(str(e))
TtsExcept ==
    /\ ttsPc = "except"
    /\ ttsSignals' = Append(ttsSignals, Signal("error", ttsExc))
    /\ ttsExc' = PyNone
    /\ ttsPc' = "done"
    /\ UNCHANGED <<ttsTmp, ttsTried>>

(***************************************************************************)
(* voice_engine.py: STTWorker                                              *)
(***************************************************************************)

MIN_AUDIO_SIZE == 1000

NoSpeechMsg  == "No speech detected"
RecFailedMsg == "Recording failed: arecord: main:831: audio open error"

\* Sizes the recorder can leave the .wav file with.
RecordedSizes == {0, 44, 999, 1000, 1001, 480044}

\* Transcripts, as sequences of characters.
Transcripts == {<<>>, <<" ">>, <<"a">>, <<" ", "a", " ">>, <<"h", "i">>,
                <<" ", "h", "i", " ">>}

RECURSIVE LStrip(_)
LStrip(t) == IF t # <<>> /\ Head(t) = " " THEN LStrip(Tail(t)) ELSE t

RECURSIVE RStrip(_)
RStrip(t) == IF t # <<>> /\ t[Len(t)] = " " THEN RStrip(SubSeq(t, 1, Len(t) - 1)) ELSE t

\* str.strip()
Strip(t) == RStrip(LStrip(t))

\* os.path.getsize(tmp_path) == 0: only an empty file is rejected
TooSmallEmptyOnly(size) == size = 0

\* os.path.getsize(tmp_path) < MIN_AUDIO_SIZE
TooSmall(size) == size < MIN_AUDIO_SIZE

\* len(text) < 2
TooShort(text) == Len(text) < 2

SttOff ==
    /\ sttPc = "off"
    /\ sttTmp = "none"
    /\ sttSize = 0
    /\ sttReturn = 0
    /\ sttExc = PyNone
    /\ sttCalls = 0
    /\ sttSignals = <<>>

\* An STTWorker has been started.
SttInit ==
    /\ sttPc = "start"
    /\ sttTmp = "none"
    /\ sttSize = 0
    /\ sttReturn = 0
    /\ sttExc = PyNone
    /\ sttCalls = 0
    /\ sttSignals = <<>>

\* api_key = os.getenv(...); if not api_key: self.error.emit(...); return
SttStart ==
    /\ sttPc = "start"
    /\ IF apiKey
       THEN /\ sttPc' = "tmp"
            /\ UNCHANGED sttSignals
       ELSE /\ sttPc' = "finally"
            /\ sttSignals' = Append(sttSignals, Signal("error", NoKeyMsg))
    /\ UNCHANGED <<sttTmp, sttSize, sttReturn, sttExc, sttCalls>>

\* tmp = tempfile.NamedTemporaryFile(suffix=".wav", delete=False); tmp.close()
SttTmp ==
    /\ sttPc = "tmp"
    /\ sttTmp' = "exists"
    /\ sttSize' = 0
    /\ sttPc' = "record"
    /\ UNCHANGED <<sttReturn, sttExc, sttCalls, sttSignals>>

\* self.recording_started.emit(); result = subprocess.run(cmd, ...);
\* self.recording_stopped.emit()
\* A missing recorder raises FileNotFoundError, a recorder that overruns
\* raises TimeoutExpired; otherwise it exits and leaves the file in some state.
SttRecord ==
    /\ sttPc = "record"
    /\ IF "arecord" \notin installed
       THEN /\ sttExc' = "[Errno 2] No such file or directory: 'arecord'"
            /\ sttPc' = "except"
            /\ sttSignals' = Append(sttSignals, Signal("recording_started", ""))
            /\ UNCHANGED <<sttTmp, sttSize, sttReturn>>
       ELSE \E how \in {"exit", "timeout"}, code \in {0, 1},
               file \in {"exists", "gone"}, size \in RecordedSizes :
               /\ sttTmp' = file
               /\ sttSize' = IF file = "exists" THEN size ELSE 0
               /\ IF how = "timeout"
                  THEN /\ sttExc' = "Command timed out after 8 seconds"
                       /\ sttPc' = "except"
                       /\ sttSignals' = Append(sttSignals, Signal("recording_started", ""))
                       /\ UNCHANGED sttReturn
                  ELSE /\ sttReturn' = code
                       /\ sttPc' = "check"
                       /\ sttSignals' = sttSignals \o
                              <<Signal("recording_started", ""),
                                Signal("recording_stopped", "")>>
                       /\ UNCHANGED sttExc
    /\ UNCHANGED sttCalls

\* if result.returncode != 0: self.error.emit(f"Recording failed: ..."); return
SttCheckReturn ==
    /\ sttPc = "check"
    /\ IF sttReturn # 0
       THEN /\ sttSignals' = Append(sttSignals, Signal("error", RecFailedMsg))
            /\ sttPc' = "finally"
       ELSE /\ sttPc' = "size"
            /\ UNCHANGED sttSignals
    /\ UNCHANGED <<sttTmp, sttSize, sttReturn, sttExc, sttCalls>>

\* if not os.path.exists(tmp_path) or os.path.getsize(tmp_path) < MIN_AUDIO_SIZE:
\*     self.error.emit("No speech detected"); return
SttCheckSize ==
    /\ sttPc = "size"
    /\ IF sttTmp # "exists" \/ TooSmall(sttSize)
       THEN /\ sttSignals' = Append(sttSignals, Signal("error", NoSpeechMsg))
            /\ sttPc' = "finally"
       ELSE /\ sttPc' = "transcribe"
            /\ UNCHANGED sttSignals
    /\ UNCHANGED <<sttTmp, sttSize, sttReturn, sttExc, sttCalls>>

\* transcript = client.audio.transcriptions.create(...); text = transcript.text.strip()
\* if len(text) < 2: error "No speech detected" else transcription_ready(text)
SttTranscribe ==
    /\ sttPc = "transcribe"
    /\ sttCalls' = sttCalls + 1
    /\ \/ /\ sttExc' = "Connection error."
          /\ sttPc' = "except"
          /\ UNCHANGED sttSignals
       \/ \E t \in Transcripts :
             /\ sttSignals' = Append(sttSignals,
                    IF TooShort(Strip(t))
                    THEN Signal("error", NoSpeechMsg)
                    ELSE [sig |-> "transcription_ready", msg |-> "", text |-> Strip(t)])
             /\ sttPc' = "finally"
             /\ UNCHANGED sttExc
    /\ UNCHANGED <<sttTmp, sttSize, sttReturn>>

\* except Exception as e: self.error.emit(str(e))
SttExcept ==
    /\ sttPc = "except"
    /\ sttSignals' = Append(sttSignals, Signal("error", sttExc))
    /\ sttExc' = PyNone
    /\ sttPc' = "finally"
    /\ UNCHANGED <<sttTmp, sttSize, sttReturn, sttCalls>>

\* finally: if tmp_path and os.path.exists(tmp_path): os.unlink(tmp_path)
SttFinally ==
    /\ sttPc = "finally"
    /\ sttTmp' = IF sttTmp = "exists" THEN "deleted" ELSE sttTmp
    /\ sttPc' = "done"
    /\ UNCHANGED <<sttSize, sttReturn, sttExc, sttCalls, sttSignals>>

(***************************************************************************)
(* alex_client.py: the two GET methods                                     *)
(***************************************************************************)

\* The outcomes of requests.get(.../api/terminal-messages) followed by
\* resp.json(): a RequestException (timeout, connection error), or an answer
\* whose body is not JSON, is a JSON value that is not an object, or is an
\* object whose 'messages' member is absent, null or a list.
MessagesValues ==
    [kind : {"absent", "null"}, items : {<<>>}]
    \cup [kind : {"list"}, items : ListsOf(RemoteElements, MaxQueue)]
MessagesOutcomes ==
    [kind : {"timeout", "connerr"}, status : {0}, json : {"none"},
     messages : {[kind |-> "absent", items |-> <<>>]}]
    \cup
    [kind : {"resp"}, status : Statuses, json : {"notjson", "list"},
     messages : {[kind |-> "absent", items |-> <<>>]}]
    \cup
    [kind : {"resp"}, status : Statuses, json : {"obj"}, messages : MessagesValues]

Returned(v) == [raised |-> FALSE, value |-> v]
Raised(e)   == [raised |-> TRUE, value |-> e]

\* AlexClient.get_terminal_messages: only requests.RequestException is caught
\* (a body that is not JSON raises one); .get on a JSON value that is not an
\* object raises AttributeError.
GetTerminalMessages(o) ==
    CASE o.kind \in {"timeout", "connerr"} -> Returned(EmptyList)
      [] o.kind = "resp" /\ o.status # 200 -> Returned(EmptyList)
      [] o.kind = "resp" /\ o.status = 200 /\ o.json = "notjson" -> Returned(EmptyList)
      [] o.kind = "resp" /\ o.status = 200 /\ o.json = "list" ->
            Raised("'list' object has no attribute 'get'")
      [] o.kind = "resp" /\ o.status = 200 /\ o.json = "obj" ->
            Returned(CASE o.messages.kind = "absent" -> EmptyList
                       [] o.messages.kind = "null" -> [kind |-> "nonlist", items |-> <<>>]
                       [] o.messages.kind = "list" -> o.messages)

FetchOff ==
    /\ fetchWhich = "none"
    /\ fetchOutcome = [kind |-> "none"]
    /\ fetchPc = "off"
    /\ fetchResult = Returned(PyNone)

FetchInit ==
    /\ \/ fetchWhich = "health_check" /\ fetchOutcome \in HealthOutcomes
       \/ fetchWhich = "get_terminal_messages" /\ fetchOutcome \in MessagesOutcomes
    /\ fetchPc = "call"
    /\ fetchResult = Returned(PyNone)

\* a call of AlexClient.health_check
HealthCheckCall ==
    /\ fetchPc = "call"
    /\ fetchWhich = "health_check"
    /\ fetchResult' = Returned(HealthCheck(fetchOutcome))
    /\ fetchPc' = "done"
    /\ UNCHANGED <<fetchWhich, fetchOutcome>>

\* a call of AlexClient.get_terminal_messages
GetTerminalMessagesCall ==
    /\ fetchPc = "call"
    /\ fetchWhich = "get_terminal_messages"
    /\ fetchResult' = GetTerminalMessages(fetchOutcome)
    /\ fetchPc' = "done"
    /\ UNCHANGED <<fetchWhich, fetchOutcome>>

(***************************************************************************)
(* alex_terminal.py: AlexTerminal, the UI thread and the workers it starts *)
(***************************************************************************)

\* Events from outside the window: messages and /status commands the user
\* sends, mic clicks that start a recording, autonomous messages the poller
\* delivers.
MaxEvents == 2

\* A signal a worker thread emitted, queued for the UI thread.
UiSignal(sig, from, msg, text) == [sig |-> sig, from |-> from, msg |-> msg, text |-> text]

\* What the user can have typed into input_field.
SendTexts == {<<>>, <<" ">>, <<"h", "i">>, <<"/", "c", "l", "e", "a", "r">>}

\* The pairs send_message can return to CommandWorker.run: a timeout, and the
\* 200 responses {"success": true} with every value of the response member.
CommandResults ==
    {SendMessage(o) : o \in {p \in PostOutcomes :
        \/ p.kind = "timeout"
        \/ p.json = "obj" /\ p.status = 200 /\ p.data.error = Absent /\ p.data.success = PyTrue}}

\* The signals of one STTWorker.run, in the order it emits them.
SttRuns ==
    { <<UiSignal("stt_error", 0, NoKeyMsg, <<>>)>>,
      <<UiSignal("recording_started", 0, "", <<>>),
        UiSignal("stt_error", 0, RecFailedMsg, <<>>)>>,
      <<UiSignal("recording_started", 0, "", <<>>),
        UiSignal("recording_stopped", 0, "", <<>>),
        UiSignal("stt_error", 0, NoSpeechMsg, <<>>)>>,
      <<UiSignal("recording_started", 0, "", <<>>),
        UiSignal("recording_stopped", 0, "", <<>>),
        UiSignal("transcription_ready", 0, "", <<"h", "i">>)>> }

\* messages sent by the user, /status commands, recordings started and
\* autonomous messages delivered so far
Events ==
    Cardinality({w \in 1..Len(cmdWorkers) : cmdWorkers[w].by = "user"})
    + Cardinality({w \in 1..Len(healthWorkers) : healthWorkers[w].kind = "status"})
    + Len(sttWorkers) + autoCount

\* QThread.isRunning() of the worker a handle refers to
TtsIsRunning == tts_worker # 0 /\ ttsWorkers[tts_worker] = "running"
SttIsRunning == stt_worker # 0 /\ sttWorkers[stt_worker].state = "running"

UiOff ==
    /\ uiPc = "off"
    /\ markerFile = FALSE
    /\ inputEnabled = FALSE
    /\ micEnabled = FALSE
    /\ uiQueue = <<>>
    /\ cmd_worker = 0
    /\ cmdWorkers = <<>>
    /\ tts_worker = 0
    /\ ttsWorkers = <<>>
    /\ stt_worker = 0
    /\ sttWorkers = <<>>
    /\ health_worker = 0
    /\ healthWorkers = <<>>
    /\ pollers = 0
    /\ poller = "none"
    /\ autoCount = 0
    /\ micLabel = "Mic"
    /\ appended = 0

\* The window after AlexTerminal.__init__: the marker is written and the
\* startup health check is running.
UiInit ==
    /\ uiPc = "open"
    /\ markerFile = TRUE
    /\ inputEnabled = TRUE
    /\ micEnabled = TRUE
    /\ uiQueue = <<>>
    /\ cmd_worker = 0
    /\ cmdWorkers = <<>>
    /\ tts_worker = 0
    /\ ttsWorkers = <<>>
    /\ stt_worker = 0
    /\ sttWorkers = <<>>
    /\ health_worker = 1
    /\ healthWorkers = <<[kind |-> "startup", state |-> "running", signalled |-> "none"]>>
    /\ pollers = 0
    /\ poller = "none"
    /\ autoCount = 0
    /\ micLabel = "Mic"
    /\ appended = 0

\* a worker thread emits a signal connected to a slot of the window; once
\* closeEvent has begun the UI thread delivers no signal any more
Post(sig) == uiQueue' = IF uiPc = "open" THEN Append(uiQueue, sig) ELSE uiQueue

\* the UI thread takes the oldest queued signal, of kind sig
Takes(sig) ==
    /\ uiPc = "open"
    /\ uiQueue # <<>>
    /\ Head(uiQueue).sig = sig
    /\ uiQueue' = Tail(uiQueue)

\* AlexTerminal._speak without the isRunning() guard
SpeakUnguarded(text) ==
    /\ ttsWorkers' = Append(ttsWorkers, "running")
    /\ tts_worker' = Len(ttsWorkers) + 1

\* AlexTerminal._speak
Speak(text) ==
    IF TtsIsRunning
    THEN UNCHANGED <<tts_worker, ttsWorkers>>
    ELSE /\ ttsWorkers' = Append(ttsWorkers, "running")
         /\ tts_worker' = Len(ttsWorkers) + 1

\* if self.voice_on [and text]: self._speak(text), without the test of voice_on
SpeakWhateverVoice(text) ==
    IF Truthy(text)
    THEN Speak(text)
    ELSE UNCHANGED <<tts_worker, ttsWorkers>>

\* if self.voice_on [and text]: self._speak(text)
SpeakIfVoiceOn(text) ==
    IF Truthy(voice_on) /\ Truthy(text)
    THEN Speak(text)
    ELSE UNCHANGED <<tts_worker, ttsWorkers>>

\* AlexTerminal._on_send with input_field holding text
OnSend(text, by) ==
    IF Strip(text) = <<>>
    THEN UNCHANGED <<inputEnabled, cmd_worker, cmdWorkers>>
    ELSE IF Head(Strip(text)) = "/"
    THEN UNCHANGED <<inputEnabled, cmd_worker, cmdWorkers>>
    ELSE /\ by = "user" => Events < MaxEvents
         /\ inputEnabled' = FALSE
         /\ cmdWorkers' = Append(cmdWorkers,
                [state |-> "running", emitted |-> 0, handled |-> FALSE, by |-> by])
         /\ cmd_worker' = Len(cmdWorkers) + 1

\* Enter in input_field (returnPressed)
UserEnter ==
    /\ uiPc = "open"
    /\ inputEnabled
    /\ \E text \in SendTexts : OnSend(text, "user")
    /\ UNCHANGED <<uiPc, markerFile, micEnabled, micLabel, uiQueue, tts_worker,
                   ttsWorkers, stt_worker, sttWorkers, health_worker, healthWorkers,
                   poller, pollers, autoCount, appended>>

\* a click on send_btn
UserClickSend ==
    /\ uiPc = "open"
    /\ inputEnabled
    /\ \E text \in SendTexts : OnSend(text, "user")
    /\ UNCHANGED <<uiPc, markerFile, micEnabled, micLabel, uiQueue, tts_worker,
                   ttsWorkers, stt_worker, sttWorkers, health_worker, healthWorkers,
                   poller, pollers, autoCount, appended>>

\* CommandWorker.run of worker w
CommandWorkerRun(w) ==
    /\ uiPc \notin {"off", "closed", "aborted"}
    /\ cmdWorkers[w].state = "running"
    /\ \E r \in CommandResults :
          IF Truthy(r[2])
          THEN /\ Post(UiSignal("error_occurred", w, r[2], <<>>))
               /\ cmdWorkers' = [cmdWorkers EXCEPT ![w].state = "finished",
                                                   ![w].emitted = 1]
          ELSE IF r[1] = PyNone
          THEN \* response_ready.emit(None): TypeError, run() ends by the exception
               /\ cmdWorkers' = [cmdWorkers EXCEPT ![w].state = "crashed"]
               /\ UNCHANGED uiQueue
          ELSE /\ Post(UiSignal("response_ready", w, r[1], <<>>))
               /\ cmdWorkers' = [cmdWorkers EXCEPT ![w].state = "finished",
                                                   ![w].emitted = 1]
    /\ UNCHANGED <<uiPc, markerFile, inputEnabled, micEnabled, micLabel, cmd_worker,
                   tts_worker, ttsWorkers, stt_worker, sttWorkers, health_worker,
                   healthWorkers, poller, pollers, autoCount, appended>>

\* AlexTerminal._on_response
OnResponse ==
    /\ Takes("response_ready")
    /\ inputEnabled' = TRUE
    /\ cmdWorkers' = [cmdWorkers EXCEPT ![Head(uiQueue).from].handled = TRUE]
    /\ appended' = appended + 1
    /\ SpeakIfVoiceOn(Head(uiQueue).msg)
    /\ UNCHANGED <<uiPc, markerFile, micEnabled, micLabel, cmd_worker, stt_worker,
                   sttWorkers, health_worker, healthWorkers, poller, pollers,
                   autoCount>>

\* AlexTerminal._on_error
OnError ==
    /\ Takes("error_occurred")
    /\ inputEnabled' = TRUE
    /\ cmdWorkers' = [cmdWorkers EXCEPT ![Head(uiQueue).from].handled = TRUE]
    /\ UNCHANGED <<uiPc, markerFile, micEnabled, micLabel, cmd_worker, tts_worker,
                   ttsWorkers, stt_worker, sttWorkers, health_worker, healthWorkers,
                   poller, pollers, autoCount, appended>>

\* HealthCheckWorker.run of worker w ends with connected or failed.  The
\* startup worker's signals are connected to _on_connected and
\* _on_connection_failed, a /status worker's to _on_status_check and a lambda.
HealthWorkerRun(w) ==
    /\ uiPc \notin {"off", "closed", "aborted"}
    /\ healthWorkers[w].state = "running"
    /\ \E sig \in {"connected", "failed"} :
          /\ healthWorkers' = [healthWorkers EXCEPT ![w].state = "finished",
                                                     ![w].signalled = sig]
          /\ Post(UiSignal(IF healthWorkers[w].kind = "startup"
                           THEN sig
                           ELSE IF sig = "connected" THEN "status_connected"
                                                     ELSE "status_failed",
                           w, "", <<>>))
    /\ UNCHANGED <<uiPc, markerFile, inputEnabled, micEnabled, micLabel, cmd_worker,
                   cmdWorkers, tts_worker, ttsWorkers, stt_worker, sttWorkers,
                   health_worker, poller, pollers, autoCount, appended>>

\* AlexTerminal._start_poller
StartPoller ==
    /\ poller' = "running"
    /\ pollers' = pollers + 1

\* AlexTerminal._on_connected
OnConnected ==
    /\ Takes("connected")
    /\ SpeakIfVoiceOn("Welcome Lee")
    /\ StartPoller
    /\ UNCHANGED <<uiPc, markerFile, inputEnabled, micEnabled, micLabel, cmd_worker,
                   cmdWorkers, stt_worker, sttWorkers, health_worker, healthWorkers,
                   autoCount, appended>>

\* AlexTerminal._handle_command, command == "/status": the handle is rebound
\* without a look at the worker it refers to.  A worker that is still running
\* then loses its last reference: the thread goes on, or the QThread is
\* destroyed under it and signals nothing more, or Qt aborts the process.
UserStatusCommand ==
    /\ uiPc = "open"
    /\ inputEnabled
    /\ Events < MaxEvents
    /\ IF healthWorkers[health_worker].state = "running"
       THEN \E fate \in {"running", "destroyed", "aborted"} :
               IF fate = "aborted"
               THEN /\ uiPc' = "aborted"
                    /\ UNCHANGED <<health_worker, healthWorkers>>
               ELSE /\ healthWorkers' = Append(
                           [healthWorkers EXCEPT ![health_worker].state = fate],
                           [kind |-> "status", state |-> "running",
                            signalled |-> "none"])
                    /\ health_worker' = Len(healthWorkers) + 1
                    /\ UNCHANGED uiPc
       ELSE /\ healthWorkers' = Append(healthWorkers,
                   [kind |-> "status", state |-> "running", signalled |-> "none"])
            /\ health_worker' = Len(healthWorkers) + 1
            /\ UNCHANGED uiPc
    /\ UNCHANGED <<markerFile, inputEnabled, micEnabled, micLabel, uiQueue, cmd_worker,
                   cmdWorkers, tts_worker, ttsWorkers, stt_worker, sttWorkers, poller,
                   pollers, autoCount, appended>>

\* AlexTerminal._on_status_check that goes on to start the poller
OnStatusCheckStartsPoller ==
    /\ Takes("status_connected")
    /\ StartPoller
    /\ UNCHANGED <<uiPc, markerFile, inputEnabled, micEnabled, micLabel, cmd_worker,
                   cmdWorkers, tts_worker, ttsWorkers, stt_worker, sttWorkers,
                   health_worker, healthWorkers, autoCount, appended>>

\* AlexTerminal._on_status_check
OnStatusCheck ==
    /\ Takes("status_connected")
    /\ UNCHANGED <<uiPc, markerFile, inputEnabled, micEnabled, micLabel, cmd_worker,
                   cmdWorkers, tts_worker, ttsWorkers, stt_worker, sttWorkers,
                   health_worker, healthWorkers, poller, pollers, autoCount, appended>>

\* lambda: (self._set_status(False), self._append_system("ALEX is offline"))
OnStatusFailed ==
    /\ Takes("status_failed")
    /\ UNCHANGED <<uiPc, markerFile, inputEnabled, micEnabled, micLabel, cmd_worker,
                   cmdWorkers, tts_worker, ttsWorkers, stt_worker, sttWorkers,
                   health_worker, healthWorkers, poller, pollers, autoCount, appended>>

\* AlexTerminal._on_connection_failed
OnConnectionFailed ==
    /\ Takes("failed")
    /\ UNCHANGED <<uiPc, markerFile, inputEnabled, micEnabled, micLabel, cmd_worker,
                   cmdWorkers, tts_worker, ttsWorkers, stt_worker, sttWorkers,
                   health_worker, healthWorkers, poller, pollers, autoCount, appended>>

\* AutonomousPoller._poll emits message_received
PollerEmit ==
    /\ uiPc \notin {"off", "closed", "aborted"}
    /\ poller \in {"running", "stopping"}
    /\ Events < MaxEvents
    /\ autoCount' = autoCount + 1
    /\ Post(UiSignal("message_received", 0, "body", <<>>))
    /\ UNCHANGED <<uiPc, markerFile, inputEnabled, micEnabled, micLabel, cmd_worker,
                   cmdWorkers, tts_worker, ttsWorkers, stt_worker, sttWorkers,
                   health_worker, healthWorkers, poller, pollers, appended>>

\* AutonomousPoller.run returns, or ends by an exception of _poll
PollerEnd ==
    /\ uiPc \notin {"off", "closed", "aborted"}
    /\ poller \in {"running", "stopping"}
    /\ poller' = "exited"
    /\ UNCHANGED <<uiPc, markerFile, inputEnabled, micEnabled, micLabel, uiQueue,
                   cmd_worker, cmdWorkers, tts_worker, ttsWorkers, stt_worker,
                   sttWorkers, health_worker, healthWorkers, pollers, autoCount,
                   appended>>

\* AlexTerminal._on_autonomous_message
OnAutonomousMessage ==
    /\ Takes("message_received")
    /\ appended' = appended + 1
    /\ SpeakIfVoiceOn(Head(uiQueue).msg)
    /\ UNCHANGED <<uiPc, markerFile, inputEnabled, micEnabled, micLabel, cmd_worker,
                   cmdWorkers, stt_worker, sttWorkers, health_worker, healthWorkers,
                   poller, pollers, autoCount>>

\* TTSWorker.run of worker w returns.  Its error signal is connected to a
\* lambda that only appends a line to the chat, which the model leaves out.
TtsWorkerRun(w) ==
    /\ uiPc \notin {"off", "closed", "aborted"}
    /\ ttsWorkers[w] = "running"
    /\ ttsWorkers' = [ttsWorkers EXCEPT ![w] = "finished"]
    /\ UNCHANGED <<uiPc, markerFile, inputEnabled, micEnabled, micLabel, uiQueue,
                   cmd_worker, cmdWorkers, tts_worker, stt_worker, sttWorkers,
                   health_worker, healthWorkers, poller, pollers, autoCount, appended>>

\* AlexTerminal._on_voice_toggle: a click on voice_btn
UserVoiceButton ==
    /\ uiPc = "open"
    /\ \E outcome \in SaveOutcomes : ToggleVoice(outcome)
    /\ UNCHANGED <<toggles, uiVars>>

\* AlexTerminal._on_send with "/voice" typed: _handle_command toggles the flag
UserVoiceCommand ==
    /\ uiPc = "open"
    /\ inputEnabled
    /\ \E outcome \in SaveOutcomes : ToggleVoice(outcome)
    /\ UNCHANGED <<toggles, uiVars>>

\* AlexTerminal._on_mic: a click on mic_btn
OnMic ==
    /\ uiPc = "open"
    /\ micEnabled
    /\ IF SttIsRunning
       THEN UNCHANGED <<stt_worker, sttWorkers>>
       ELSE /\ Events < MaxEvents
            /\ \E run \in SttRuns :
                  sttWorkers' = Append(sttWorkers, [state |-> "running", todo |-> run])
            /\ stt_worker' = Len(sttWorkers) + 1
    /\ UNCHANGED <<uiPc, markerFile, inputEnabled, micEnabled, micLabel, uiQueue,
                   cmd_worker, cmdWorkers, tts_worker, ttsWorkers, health_worker,
                   healthWorkers, poller, pollers, autoCount, appended>>

\* STTWorker.run of worker w emits its next signal
SttWorkerEmit(w) ==
    /\ uiPc \notin {"off", "closed", "aborted"}
    /\ sttWorkers[w].state = "running"
    /\ sttWorkers[w].todo # <<>>
    /\ Post(Head(sttWorkers[w].todo))
    /\ sttWorkers' = [sttWorkers EXCEPT ![w].todo = Tail(@)]
    /\ UNCHANGED <<uiPc, markerFile, inputEnabled, micEnabled, micLabel, cmd_worker,
                   cmdWorkers, tts_worker, ttsWorkers, stt_worker, health_worker,
                   healthWorkers, poller, pollers, autoCount, appended>>

\* STTWorker.run of worker w returns
SttWorkerEnd(w) ==
    /\ uiPc \notin {"off", "closed", "aborted"}
    /\ sttWorkers[w].state = "running"
    /\ sttWorkers[w].todo = <<>>
    /\ sttWorkers' = [sttWorkers EXCEPT ![w].state = "finished"]
    /\ UNCHANGED <<uiPc, markerFile, inputEnabled, micEnabled, micLabel, uiQueue,
                   cmd_worker, cmdWorkers, tts_worker, ttsWorkers, stt_worker,
                   health_worker, healthWorkers, poller, pollers, autoCount, appended>>

\* lambda: (self.mic_btn.setText("Recording..."), self.mic_btn.setEnabled(False))
OnRecordingStarted ==
    /\ Takes("recording_started")
    /\ micEnabled' = FALSE
    /\ micLabel' = "Recording..."
    /\ UNCHANGED <<uiPc, markerFile, inputEnabled, cmd_worker, cmdWorkers, tts_worker,
                   ttsWorkers, stt_worker, sttWorkers, health_worker, healthWorkers,
                   poller, pollers, autoCount, appended>>

\* lambda: (self.mic_btn.setText("Mic"), self.mic_btn.setEnabled(True))
OnRecordingStopped ==
    /\ Takes("recording_stopped")
    /\ micEnabled' = TRUE
    /\ micLabel' = "Mic"
    /\ UNCHANGED <<uiPc, markerFile, inputEnabled, cmd_worker, cmdWorkers, tts_worker,
                   ttsWorkers, stt_worker, sttWorkers, health_worker, healthWorkers,
                   poller, pollers, autoCount, appended>>

\* AlexTerminal._on_transcription: the text is sent at once
OnTranscription ==
    /\ Takes("transcription_ready")
    /\ micEnabled' = TRUE
    /\ micLabel' = "Mic"
    /\ OnSend(Head(uiQueue).text, "mic")
    /\ UNCHANGED <<uiPc, markerFile, tts_worker, ttsWorkers, stt_worker, sttWorkers,
                   health_worker, healthWorkers, poller, pollers, autoCount, appended>>

\* AlexTerminal._on_stt_error without the reset of mic_btn
OnSttErrorNoReset ==
    /\ Takes("stt_error")
    /\ UNCHANGED <<micEnabled, micLabel>>
    /\ UNCHANGED <<uiPc, markerFile, inputEnabled, cmd_worker, cmdWorkers, tts_worker,
                   ttsWorkers, stt_worker, sttWorkers, health_worker, healthWorkers,
                   poller, pollers, autoCount, appended>>

\* AlexTerminal._on_stt_error
OnSttError ==
    /\ Takes("stt_error")
    /\ micEnabled' = TRUE
    /\ micLabel' = "Mic"
    /\ UNCHANGED <<uiPc, markerFile, inputEnabled, cmd_worker, cmdWorkers, tts_worker,
                   ttsWorkers, stt_worker, sttWorkers, health_worker, healthWorkers,
                   poller, pollers, autoCount, appended>>

\* AlexTerminal._on_mic, the STTWorker it starts being the one modelled
\* statement by statement above
OnMicRecord ==
    /\ uiPc = "open"
    /\ micEnabled
    /\ IF SttIsRunning
       THEN UNCHANGED <<stt_worker, sttWorkers, sttVars>>
       ELSE /\ Events < MaxEvents
            /\ sttWorkers' = Append(sttWorkers, [state |-> "running", todo |-> <<>>])
            /\ stt_worker' = Len(sttWorkers) + 1
            /\ sttPc' = "start"
            /\ sttTmp' = "none"
            /\ sttSize' = 0
            /\ sttReturn' = 0
            /\ sttExc' = PyNone
            /\ sttCalls' = 0
            /\ sttSignals' = <<>>
    /\ UNCHANGED <<uiPc, markerFile, inputEnabled, micEnabled, micLabel, uiQueue,
                   cmd_worker, cmdWorkers, tts_worker, ttsWorkers, health_worker,
                   healthWorkers, poller, pollers, autoCount, appended>>

\* The signals the STTWorker emits in a step, as they are queued for the
\* window: error is connected to _on_stt_error.
SttEmitted ==
    [i \in 1..(Len(sttSignals') - Len(sttSignals)) |->
        LET e == sttSignals'[Len(sttSignals) + i]
        IN  UiSignal(IF e.sig = "error" THEN "stt_error" ELSE e.sig,
                     stt_worker, e.msg, e.text)]

\* A step of the STTWorker the window started: its signals are queued, and
\* isRunning() turns false when run() has returned.
SttWorkerStep ==
    /\ uiQueue' = uiQueue \o SttEmitted
    /\ sttWorkers' = IF sttPc' = "done"
                     THEN [sttWorkers EXCEPT ![stt_worker].state = "finished"]
                     ELSE sttWorkers
    /\ UNCHANGED <<uiPc, markerFile, inputEnabled, micEnabled, micLabel, cmd_worker,
                   cmdWorkers, tts_worker, ttsWorkers, stt_worker, health_worker,
                   healthWorkers, poller, pollers, autoCount, appended>>

\* closeEvent after the poller's wait(2000)
AfterPollerWait == IF TtsIsRunning THEN "waitTts"
                   ELSE IF SttIsRunning THEN "waitStt" ELSE "closed"

\* closeEvent after the TTS worker's wait(2000)
AfterTtsWait == IF SttIsRunning THEN "waitStt" ELSE "closed"

\* AlexTerminal._remove_marker only when a poller was started
RemoveMarkerIfPoller == markerFile' = IF poller # "none" THEN FALSE ELSE markerFile

\* AlexTerminal._remove_marker
RemoveMarker == markerFile' = FALSE

\* AlexTerminal.closeEvent up to its first wait, or to event.accept()
CloseEvent ==
    /\ uiPc = "open"
    /\ RemoveMarker
    /\ IF poller # "none"
       THEN /\ poller' = IF poller = "running" THEN "stopping" ELSE poller
            /\ uiPc' = "waitPoller"
       ELSE /\ uiPc' = AfterPollerWait
            /\ UNCHANGED poller
    /\ uiQueue' = <<>>
    /\ UNCHANGED <<inputEnabled, micEnabled, micLabel, cmd_worker, cmdWorkers,
                   tts_worker, ttsWorkers, stt_worker, sttWorkers, health_worker,
                   healthWorkers, pollers, autoCount, appended>>

\* self._poller.wait(2000) returns: the thread ended or the two seconds passed
ClosePollerWaited ==
    /\ uiPc = "waitPoller"
    /\ uiPc' = AfterPollerWait
    /\ UNCHANGED <<markerFile, inputEnabled, micEnabled, micLabel, uiQueue, cmd_worker,
                   cmdWorkers, tts_worker, ttsWorkers, stt_worker, sttWorkers,
                   health_worker, healthWorkers, poller, pollers, autoCount, appended>>

\* self._tts_worker.wait(2000) returns
CloseTtsWaited ==
    /\ uiPc = "waitTts"
    /\ uiPc' = AfterTtsWait
    /\ UNCHANGED <<markerFile, inputEnabled, micEnabled, micLabel, uiQueue, cmd_worker,
                   cmdWorkers, tts_worker, ttsWorkers, stt_worker, sttWorkers,
                   health_worker, healthWorkers, poller, pollers, autoCount, appended>>

\* self._stt_worker.wait(2000) returns; event.accept()
CloseSttWaited ==
    /\ uiPc = "waitStt"
    /\ uiPc' = "closed"
    /\ UNCHANGED <<markerFile, inputEnabled, micEnabled, micLabel, uiQueue, cmd_worker,
                   cmdWorkers, tts_worker, ttsWorkers, stt_worker, sttWorkers,
                   health_worker, healthWorkers, poller, pollers, autoCount, appended>>

(***************************************************************************)
(* Specifications                                                          *)
(***************************************************************************)

VoiceOff == EnvOff /\ TtsOff /\ SttOff

notClientVars == <<healthVars, pollerVars, configVars, voiceVars, fetchVars, uiVars>>
notHealthVars == <<clientVars, pollerVars, configVars, voiceVars, fetchVars, uiVars>>
notPollerVars == <<clientVars, healthVars, configVars, voiceVars, fetchVars, uiVars>>
notConfigVars == <<clientVars, healthVars, pollerVars, voiceVars, fetchVars, uiVars>>
notTtsVars    == <<clientVars, healthVars, pollerVars, configVars, envVars, sttVars, fetchVars, uiVars>>
notSttVars    == <<clientVars, healthVars, pollerVars, configVars, envVars, ttsVars, fetchVars, uiVars>>

notFetchVars == <<clientVars, healthVars, pollerVars, configVars, voiceVars, uiVars>>

\* One call of AlexClient.send_message.
InitClient == ClientInit /\ HealthOff /\ PollerOff /\ ConfigOff /\ VoiceOff /\ FetchOff /\ UiOff
NextClient == SendMessageCall /\ UNCHANGED notClientVars
SpecClient == InitClient /\ [][NextClient]_vars

\* One call of AlexClient.health_check or AlexClient.get_terminal_messages.
InitFetch == ClientOff /\ HealthOff /\ PollerOff /\ ConfigOff /\ VoiceOff /\ FetchInit /\ UiOff
NextFetch ==
    \/ HealthCheckCall /\ UNCHANGED notFetchVars
    \/ GetTerminalMessagesCall /\ UNCHANGED notFetchVars
SpecFetch == InitFetch /\ [][NextFetch]_vars

\* One run of a HealthCheckWorker.
InitHealth == ClientOff /\ HealthInit /\ PollerOff /\ ConfigOff /\ VoiceOff /\ FetchOff /\ UiOff
NextHealth ==
    \/ HealthLoop /\ UNCHANGED notHealthVars
    \/ HealthCall /\ UNCHANGED notHealthVars
    \/ HealthConnected /\ UNCHANGED notHealthVars
    \/ HealthRetry /\ UNCHANGED notHealthVars
    \/ HealthFailed /\ UNCHANGED notHealthVars
SpecHealth == InitHealth /\ [][NextHealth]_vars

\* The poller thread, and stop() called from the UI thread.
InitPoller == ClientOff /\ HealthOff /\ PollerInit /\ ConfigOff /\ VoiceOff /\ FetchOff /\ UiOff
NextPoller ==
    \/ PollerRun /\ UNCHANGED notPollerVars
    \/ PollerTickBegin /\ UNCHANGED notPollerVars
    \/ PollerExit /\ UNCHANGED notPollerVars
    \/ PollRemote /\ UNCHANGED notPollerVars
    \/ PollFileRead /\ UNCHANGED notPollerVars
    \/ PollFileClear /\ UNCHANGED notPollerVars
    \/ PollFileEmit /\ UNCHANGED notPollerVars
    \/ PollerSleep /\ UNCHANGED notPollerVars
    \/ PollerStop /\ UNCHANGED notPollerVars
SpecPoller == InitPoller /\ [][NextPoller]_vars

\* The voice flag, toggled by the button and by /voice.
InitConfig == ClientOff /\ HealthOff /\ PollerOff /\ ConfigInit /\ VoiceOff /\ FetchOff /\ UiOff
NextConfig ==
    \/ OnVoiceToggle /\ UNCHANGED notConfigVars
    \/ HandleVoiceCommand /\ UNCHANGED notConfigVars
SpecConfig == InitConfig /\ [][NextConfig]_vars

\* One text-to-speech run and one speech-to-text run, side by side.
InitVoice == ClientOff /\ HealthOff /\ PollerOff /\ ConfigOff
             /\ EnvInit /\ TtsInit /\ SttInit /\ FetchOff /\ UiOff
NextVoice ==
    \/ TtsStart /\ UNCHANGED notTtsVars
    \/ TtsSynth /\ UNCHANGED notTtsVars
    \/ TtsWrite /\ UNCHANGED notTtsVars
    \/ TtsMpg123 /\ UNCHANGED notTtsVars
    \/ TtsFfplay /\ UNCHANGED notTtsVars
    \/ TtsFinally /\ UNCHANGED notTtsVars
    \/ TtsFinished /\ UNCHANGED notTtsVars
    \/ TtsExcept /\ UNCHANGED notTtsVars
    \/ SttStart /\ UNCHANGED notSttVars
    \/ SttTmp /\ UNCHANGED notSttVars
    \/ SttRecord /\ UNCHANGED notSttVars
    \/ SttCheckReturn /\ UNCHANGED notSttVars
    \/ SttCheckSize /\ UNCHANGED notSttVars
    \/ SttTranscribe /\ UNCHANGED notSttVars
    \/ SttExcept /\ UNCHANGED notSttVars
    \/ SttFinally /\ UNCHANGED notSttVars
SpecVoice == InitVoice /\ [][NextVoice]_vars

notUiVars == <<clientVars, healthVars, pollerVars, configVars, voiceVars, fetchVars>>

\* The window: the UI thread's handlers and the worker threads it starts.
InitUi == ClientOff /\ HealthOff /\ PollerOff /\ VoiceOff /\ FetchOff
          /\ ConfigInit /\ configFile.voice # Absent /\ UiInit
NextUi ==
    \/ UserEnter /\ UNCHANGED notUiVars
    \/ UserClickSend /\ UNCHANGED notUiVars
    \/ (\E w \in 1..Len(cmdWorkers) : CommandWorkerRun(w)) /\ UNCHANGED notUiVars
    \/ OnResponse /\ UNCHANGED notUiVars
    \/ OnError /\ UNCHANGED notUiVars
    \/ (\E w \in 1..Len(healthWorkers) : HealthWorkerRun(w)) /\ UNCHANGED notUiVars
    \/ OnConnected /\ UNCHANGED notUiVars
    \/ OnConnectionFailed /\ UNCHANGED notUiVars
    \/ PollerEmit /\ UNCHANGED notUiVars
    \/ PollerEnd /\ UNCHANGED notUiVars
    \/ OnAutonomousMessage /\ UNCHANGED notUiVars
    \/ (\E w \in 1..Len(ttsWorkers) : TtsWorkerRun(w)) /\ UNCHANGED notUiVars
    \/ OnMic /\ UNCHANGED notUiVars
    \/ (\E w \in 1..Len(sttWorkers) : SttWorkerEmit(w)) /\ UNCHANGED notUiVars
    \/ (\E w \in 1..Len(sttWorkers) : SttWorkerEnd(w)) /\ UNCHANGED notUiVars
    \/ OnRecordingStarted /\ UNCHANGED notUiVars
    \/ OnRecordingStopped /\ UNCHANGED notUiVars
    \/ OnTranscription /\ UNCHANGED notUiVars
    \/ OnSttError /\ UNCHANGED notUiVars
    \/ CloseEvent /\ UNCHANGED notUiVars
    \/ ClosePollerWaited /\ UNCHANGED notUiVars
    \/ CloseTtsWaited /\ UNCHANGED notUiVars
    \/ CloseSttWaited /\ UNCHANGED notUiVars
SpecUi == InitUi /\ [][NextUi]_vars

\* The microphone: mic clicks, the STTWorker's run and the window's handlers
\* of its signals.
notMicVars == <<clientVars, healthVars, pollerVars, configVars, envVars, ttsVars,
                fetchVars>>
InitMic == ClientOff /\ HealthOff /\ PollerOff /\ ConfigOff /\ FetchOff
           /\ EnvInit /\ TtsOff /\ SttOff /\ UiInit
NextMic ==
    \/ OnMicRecord /\ UNCHANGED notMicVars
    \/ SttStart /\ SttWorkerStep /\ UNCHANGED notMicVars
    \/ SttTmp /\ SttWorkerStep /\ UNCHANGED notMicVars
    \/ SttRecord /\ SttWorkerStep /\ UNCHANGED notMicVars
    \/ SttCheckReturn /\ SttWorkerStep /\ UNCHANGED notMicVars
    \/ SttCheckSize /\ SttWorkerStep /\ UNCHANGED notMicVars
    \/ SttTranscribe /\ SttWorkerStep /\ UNCHANGED notMicVars
    \/ SttExcept /\ SttWorkerStep /\ UNCHANGED notMicVars
    \/ SttFinally /\ SttWorkerStep /\ UNCHANGED notMicVars
    \/ OnRecordingStarted /\ UNCHANGED notUiVars
    \/ OnRecordingStopped /\ UNCHANGED notUiVars
    \/ OnTranscription /\ UNCHANGED notUiVars
    \/ OnSttError /\ UNCHANGED notUiVars
SpecMic == InitMic /\ [][NextMic]_vars

\* Speech: the voice flag's toggles and the three triggers of _speak.
notSpeechVars == <<clientVars, healthVars, pollerVars, voiceVars, fetchVars>>
InitSpeech == ClientOff /\ HealthOff /\ PollerOff /\ VoiceOff /\ FetchOff
              /\ ConfigInit /\ UiInit
NextSpeech ==
    \/ UserVoiceButton /\ UNCHANGED notSpeechVars
    \/ UserVoiceCommand /\ UNCHANGED notSpeechVars
    \/ UserEnter /\ UNCHANGED notUiVars
    \/ UserClickSend /\ UNCHANGED notUiVars
    \/ (\E w \in 1..Len(cmdWorkers) : CommandWorkerRun(w)) /\ UNCHANGED notUiVars
    \/ OnResponse /\ UNCHANGED notUiVars
    \/ OnError /\ UNCHANGED notUiVars
    \/ (\E w \in 1..Len(healthWorkers) : HealthWorkerRun(w)) /\ UNCHANGED notUiVars
    \/ OnConnected /\ UNCHANGED notUiVars
    \/ OnConnectionFailed /\ UNCHANGED notUiVars
    \/ PollerEmit /\ UNCHANGED notUiVars
    \/ OnAutonomousMessage /\ UNCHANGED notUiVars
    \/ (\E w \in 1..Len(ttsWorkers) : TtsWorkerRun(w)) /\ UNCHANGED notUiVars
SpecSpeech == InitSpeech /\ [][NextSpeech]_vars

\* The health checks: the startup check, /status commands and the poller that
\* _on_connected starts.
InitStatus == ClientOff /\ HealthOff /\ PollerOff /\ VoiceOff /\ FetchOff
              /\ ConfigInit /\ configFile.voice # Absent /\ UiInit
NextStatus ==
    \/ UserStatusCommand /\ UNCHANGED notUiVars
    \/ (\E w \in 1..Len(healthWorkers) : HealthWorkerRun(w)) /\ UNCHANGED notUiVars
    \/ OnConnected /\ UNCHANGED notUiVars
    \/ OnConnectionFailed /\ UNCHANGED notUiVars
    \/ OnStatusCheck /\ UNCHANGED notUiVars
    \/ OnStatusFailed /\ UNCHANGED notUiVars
    \/ PollerEmit /\ UNCHANGED notUiVars
    \/ OnAutonomousMessage /\ UNCHANGED notUiVars
    \/ (\E w \in 1..Len(ttsWorkers) : TtsWorkerRun(w)) /\ UNCHANGED notUiVars
SpecStatus == InitStatus /\ [][NextStatus]_vars

(***************************************************************************)
(* Properties                                                              *)
(***************************************************************************)

NonEmpty(v) == v \notin {PyNone, Absent, ""}

\* C1: when send_message has returned, exactly one of (response text, error
\* string) is non-empty: never both non-empty, never both empty or None.
C1_ExactlyOneNonEmpty ==
    sendPc = "done" => (NonEmpty(sendResult[1]) # NonEmpty(sendResult[2]))

HealthCalls   == SelectSeq(hLog, LAMBDA e : e.ev = "call")
HealthSignals == SelectSeq(hLog, LAMBDA e : e.ev \in {"connected", "failed"})
IsSnapshot(v) == v = "snapshot"

\* C2: in one run of HealthCheckWorker with N attempts the number of
\* health_check calls never exceeds N, and neither a call nor a delay follows
\* a call that returned a health snapshot.
C2_BoundedAndStopsOnSuccess ==
    /\ Len(HealthCalls) <= hRetries
    /\ \A j \in 1..Len(hLog) : \A k \in 1..Len(hLog) :
          (j < k /\ hLog[j].ev = "call" /\ IsSnapshot(hLog[j].val))
             => hLog[k].ev \notin {"call", "sleep"}

\* C2 witness: a run that failed twice, slept twice and then succeeded.
C2_Witness ==
    /\ hPc = "done"
    /\ Len(HealthCalls) = 3
    /\ IsSnapshot(hLog[Len(hLog) - 1].val)
    /\ \E j \in 1..Len(hLog) : hLog[j].ev = "sleep"

WellFormed(m) == m.obj /\ m.title # Absent /\ m.body # Absent
AllWellFormed(f) == f.kind = "list" /\ \A i \in 1..Len(f.items) : WellFormed(f.items[i])
NoRemote == tickRemote = [kind |-> "list", items |-> <<>>]
TickOver == pTicks > 0 /\ pPc \in {"sleep", "crashed"}
FileEvent(m) == [src |-> "file", title |-> m.title, body |-> m.body]
HasBody(m) == m.body # ""

Malformed(f) ==
    \/ f.kind \in {"notjson", "nonlist"}
    \/ /\ f.kind = "list"
       /\ f.items # <<>>
       /\ \A i \in 1..Len(f.items) : ~f.items[i].obj

\* C5: given a queue file with malformed content (not JSON, not a list, or a
\* list whose elements are not message objects), a poll tick emits no event
\* from the file and leaves the file content unchanged.
C5_MalformedLeftAlone ==
    (pTicks > 0 /\ Malformed(tickFile)) =>
        /\ queueFile = tickFile
        /\ \A i \in 1..Len(tickEvents) : tickEvents[i].src # "file"

\* C6: no failure inside a poll tick ends the polling loop: _poll always
\* returns normally, so the poller thread never dies in a tick.
C6_PollNeverRaises == pPc # "crashed"

AllSavedUpTo(i) == \A j \in 1..i : toggles[j].save = "ok"

HasSignal(sigs, sig, msg) == \E i \in 1..Len(sigs) : sigs[i].sig = sig /\ sigs[i].msg = msg
HasError(sigs) == \E i \in 1..Len(sigs) : sigs[i].sig = "error"
PlaybackReached == ttsTried # <<>>

\* C8: when a text-to-speech run has obtained audio and reached playback, and
\* neither mpg123 nor ffplay exists on the system, the finished run has
\* emitted the error signal with the 'No audio player found' message.
C8_NoPlayerReported ==
    (ttsPc = "done" /\ PlaybackReached /\ "mpg123" \notin installed /\ "ffplay" \notin installed)
        => HasSignal(ttsSignals, "error", NoPlayerMsg)

\* C8 witness: a run ended after both players were found missing.
C8_Witness ==
    /\ ttsPc = "done"
    /\ ttsTried = <<[player |-> "mpg123", result |-> "notfound"],
                    [player |-> "ffplay", result |-> "notfound"]>>

RecorderExited == sttPc \in {"check", "size", "transcribe", "finally", "done"}
                  /\ HasSignal(sttSignals, "recording_stopped", "")
FileMissingOrSmall == sttTmp = "gone" \/ sttSize < MIN_AUDIO_SIZE

\* C9 (as claimed): in a finished speech-to-text run whose recorder exited
\* with a non-zero code, or whose recorded file is missing or smaller than the
\* minimum size, the error 'No speech detected' was reported and the
\* transcription endpoint was never called.
C9_NoSpeechAsClaimed ==
    (sttPc = "done" /\ RecorderExited /\ (sttReturn # 0 \/ FileMissingOrSmall)) =>
        /\ HasSignal(sttSignals, "error", NoSpeechMsg)
        /\ sttCalls = 0

\* C9 (amended): in such a run the transcription endpoint was never called;
\* a non-zero exit code was reported as 'Recording failed: ...', and a zero
\* exit code with a missing or too small file as 'No speech detected'.
C9_RecordingRejected ==
    (sttPc = "done" /\ RecorderExited /\ (sttReturn # 0 \/ FileMissingOrSmall)) =>
        /\ sttCalls = 0
        /\ sttReturn # 0 => /\ HasSignal(sttSignals, "error", RecFailedMsg)
                            /\ ~HasSignal(sttSignals, "error", NoSpeechMsg)
        /\ sttReturn = 0 => /\ HasSignal(sttSignals, "error", NoSpeechMsg)
                            /\ ~HasSignal(sttSignals, "error", RecFailedMsg)

\* C9 witness: a run ended after a recording of 999 bytes with exit code 0.
C9_Witness ==
    /\ sttPc = "done"
    /\ RecorderExited
    /\ sttReturn = 0
    /\ sttSize = 999
    /\ sttTmp = "deleted"
    /\ HasSignal(sttSignals, "error", NoSpeechMsg)

\* C10: when a text-to-speech or speech-to-text run has ended, on any path,
\* the temporary audio file it created no longer exists.
C10_TempFileRemoved ==
    /\ ttsPc = "done" => ttsTmp # "exists"
    /\ sttPc = "done" => sttTmp # "exists"

\* C10 witness: both runs ended on an error path after creating their file.
C10_Witness ==
    /\ ttsPc = "done" /\ ttsTmp = "deleted" /\ HasError(ttsSignals)
    /\ sttPc = "done" /\ sttTmp = "deleted" /\ HasError(sttSignals)

\* C11: once stop() has been called on a started poller, at whatever point of
\* the poller thread's progress, the loop test ends the loop: the tick in
\* flight runs to its end and no tick begins after the stop request.
C11_StopEndsLoop ==
    [][(pStopped /\ pPc = "while") => (pPc' \in {"while", "exited"})]_vars

FileEvents   == SelectSeq(tickEvents, LAMBDA e : e.src = "file")
RECURSIVE ObjectPrefix(_)
ObjectPrefix(items) ==
    IF items = <<>> \/ ~Head(items).obj THEN <<>>
    ELSE <<Head(items)>> \o ObjectPrefix(Tail(items))
BodyOf(m)  == IF m.body # Absent THEN m.body ELSE IF m.text # Absent THEN m.text ELSE ""
TitleOf(m) == IF m.title # Absent THEN m.title ELSE "ALEX"
Speaking(m) == BodyOf(m) # ""

\* C16: within a poll tick every event of a remote message comes before every
\* event of a queue-file message; the file holds the empty list by the time
\* the first event of its contents is emitted; and the file events follow the
\* order of the list.
C16_RemoteThenClearedFile ==
    /\ \A i \in 1..Len(tickEvents) : \A j \in 1..Len(tickEvents) :
          (i < j /\ tickEvents[i].src = "file") => tickEvents[j].src = "file"
    /\ FileEvents # <<>> => queueFile = EmptyList
    /\ FileEvents # <<>> =>
          LET kept == SelectSeq(ObjectPrefix(tickFile.items), Speaking)
          IN  FileEvents = [i \in 1..Len(kept) |->
                              [src |-> "file", title |-> TitleOf(kept[i]),
                               body |-> BodyOf(kept[i])]]

\* C16 witness: a tick emitted a remote event and then the events of a file
\* of two messages.
C16_Witness ==
    /\ pPc = "sleep"
    /\ Len(tickEvents) = 3
    /\ tickEvents[1].src = "remote"
    /\ Len(FileEvents) = 2
    /\ FileEvents[1].body # FileEvents[2].body

\* C17: without a concurrent writer no message of the queue file is lost: when
\* a tick is over, every message of the file that has a body either was
\* emitted as an event or is still in the file.
C17_NoLossWithoutWriter ==
    (TickOver /\ tickFile.kind = "list") =>
        \A i \in 1..Len(tickFile.items) :
            LET m == tickFile.items[i]
            IN  (m.obj /\ Speaking(m)) =>
                   \/ queueFile = tickFile
                   \/ \E k \in 1..Len(FileEvents) :
                         /\ FileEvents[k].title = TitleOf(m)
                         /\ FileEvents[k].body = BodyOf(m)

TriedPlayer(player) == \E i \in 1..Len(ttsTried) : ttsTried[i].player = player
PlayerResult(player, result) ==
    \E i \in 1..Len(ttsTried) : ttsTried[i].player = player /\ ttsTried[i].result = result

\* C18 (as claimed): in a finished text-to-speech run, whenever the primary
\* player was unavailable or failed (not installed, non-zero exit, timeout)
\* the fallback player was tried, and whenever the fallback failed too an
\* error was reported.
C18_FallbackAsClaimed ==
    ttsPc = "done" =>
        /\ (TriedPlayer("mpg123") /\ ~PlayerResult("mpg123", "ok")) => TriedPlayer("ffplay")
        /\ (TriedPlayer("ffplay") /\ ~PlayerResult("ffplay", "ok")) => HasError(ttsSignals)

\* C18 (amended): the fallback player was tried whenever the primary player
\* was not installed or exited with a non-zero code; a primary player that
\* timed out was reported as an error without trying the fallback; whenever
\* the fallback failed too an error was reported.
C18_FallbackOnMissingOrExit ==
    ttsPc = "done" =>
        /\ (PlayerResult("mpg123", "notfound") \/ PlayerResult("mpg123", "nonzero"))
              => TriedPlayer("ffplay")
        /\ PlayerResult("mpg123", "timeout")
              => (~TriedPlayer("ffplay") /\ HasError(ttsSignals))
        /\ (TriedPlayer("ffplay") /\ ~PlayerResult("ffplay", "ok")) => HasError(ttsSignals)

\* C18 witness: the primary player exited non-zero, the fallback was tried and
\* failed as well, and the run ended with an error.
C18_Witness ==
    /\ ttsPc = "done"
    /\ PlayerResult("mpg123", "nonzero")
    /\ PlayerResult("ffplay", "nonzero")
    /\ HasError(ttsSignals)

TtsOutcomes == SelectSeq(ttsSignals, LAMBDA e : e.sig \in {"finished", "error"})

\* C20: a finished text-to-speech run has emitted exactly one outcome signal,
\* either finished or error, never both and never neither.
C20_ExactlyOneOutcome == ttsPc = "done" => Len(TtsOutcomes) = 1

FetchFailed ==
    \/ fetchOutcome.kind # "resp"
    \/ fetchOutcome.status # 200
    \/ fetchOutcome.json # "obj"
    \/ fetchOutcome.messages.kind = "absent"

\* C12: get_terminal_messages never raises and returns the empty list on any
\* failure (non-200 status, timeout, connection error, a body that is not
\* JSON, a JSON body that is not an object with a 'messages' key);
\* health_check never raises and returns the parsed payload or None.
C12_GetsNeverRaise ==
    fetchPc = "done" =>
        /\ ~fetchResult.raised
        /\ (fetchWhich = "get_terminal_messages" /\ FetchFailed)
              => fetchResult.value = EmptyList
        /\ fetchWhich = "health_check"
              => fetchResult.value \in {PyNone, "{}", "snapshot"}

\* C13: every CommandWorker whose run() has ended has signalled exactly one
\* of response_ready / error_occurred to the UI thread, whatever pair
\* send_message returned.
C13_CommandSignalled ==
    \A w \in 1..Len(cmdWorkers) :
        cmdWorkers[w].state # "running" => cmdWorkers[w].emitted = 1

\* The commands in flight: started, and neither _on_response nor _on_error has
\* run for them.
InFlight == {w \in 1..Len(cmdWorkers) : ~cmdWorkers[w].handled}

\* C14: while one command is in flight no second CommandWorker is started,
\* so at most one command is in flight at any time.
C14_OneCommandInFlight == Cardinality(InFlight) <= 1

RunningTts == {w \in 1..Len(ttsWorkers) : ttsWorkers[w] = "running"}
RunningStt == {w \in 1..Len(sttWorkers) : sttWorkers[w].state = "running"}

\* C15: at any time at most one TTS worker and at most one STT worker is
\* running, whatever the order in which the UI thread handles the triggers.
C15_OneVoiceWorkerOfAKind ==
    /\ Cardinality(RunningTts) <= 1
    /\ Cardinality(RunningStt) <= 1

\* With the voice on, the welcome speech and an autonomous message have both
\* been handled, one TTS worker was created and it is still running: the later
\* trigger found it running and started nothing.  An STT worker runs as well.
C15_Witness ==
    /\ Truthy(voice_on)
    /\ poller # "none"
    /\ autoCount = 1
    /\ \A i \in 1..Len(uiQueue) : uiQueue[i].sig # "message_received"
    /\ ttsWorkers = <<"running">>
    /\ Cardinality(RunningStt) = 1

\* C19: the marker file exists while the window is open and is absent once
\* closeEvent has completed, on every path through closeEvent.
C19_MarkerWhileOpen ==
    /\ uiPc = "open" => markerFile
    /\ uiPc = "closed" => ~markerFile

\* closeEvent has completed with no poller ever started and a TTS worker that
\* outlived its wait(2000).
C19_Witness ==
    /\ uiPc = "closed"
    /\ poller = "none"
    /\ Cardinality(RunningTts) = 1

SttOutcomes ==
    SelectSeq(sttSignals, LAMBDA e : e.sig \in {"transcription_ready", "error"})

\* Run w of the microphone has signalled its outcome and the UI thread has
\* handled every signal of the run.
RunHandled(w) ==
    /\ w < stt_worker \/ sttPc \in {"finally", "done"}
    /\ \A i \in 1..Len(uiQueue) : uiQueue[i].from # w

\* C21: a speech-to-text run that has ended signalled exactly one of
\* transcription_ready / error, on every path; and at the moment the UI thread
\* has handled the last queued signal of a run the mic button is enabled with
\* the label 'Mic'.
C21_OneOutcomeAndMicReset ==
    /\ [](sttPc = "done" => Len(SttOutcomes) = 1)
    /\ [][\A w \in 1..Len(sttWorkers) :
             (~RunHandled(w) /\ RunHandled(w)') =>
                 (micEnabled' /\ micLabel' = "Mic")]_vars

\* The recorder timed out or is missing, so recording_stopped was never
\* emitted; both signals of the run have been handled and the button is back.
C21_Witness ==
    /\ sttPc = "done"
    /\ Len(sttSignals) = 2
    /\ sttSignals[1].sig = "recording_started"
    /\ sttSignals[2].sig = "error"
    /\ RunHandled(stt_worker)
    /\ micEnabled
    /\ micLabel = "Mic"

\* the UI thread handles a command response or an autonomous message
ShowsMessage ==
    /\ uiQueue # <<>>
    /\ Head(uiQueue).sig \in {"response_ready", "message_received"}
    /\ uiQueue' = Tail(uiQueue)

\* C22: a TTS worker is created only at a moment when voice_on is true; and
\* while voice_on is false a response or autonomous message that is handled
\* is appended to the chat and starts no TTS worker.
C22_SpeechOnlyWhileVoiceOn ==
    [][/\ Len(ttsWorkers') > Len(ttsWorkers) => Truthy(voice_on)
       /\ (ShowsMessage /\ ~Truthy(voice_on)) =>
              (appended' = appended + 1 /\ ttsWorkers' = ttsWorkers)]_vars

\* The welcome speech was spoken while the voice was on and has ended; the
\* voice is now off, a message sent later was answered and appended, and no
\* second TTS worker exists.
C22_Witness ==
    /\ ~Truthy(voice_on)
    /\ ttsWorkers = <<"finished">>
    /\ poller # "none"
    /\ appended = 1
    /\ Len(cmdWorkers) = 1
    /\ cmdWorkers[1].handled

\* C23: at most one AutonomousPoller is ever created and started, and only
\* after the startup health check signalled connected; handling a successful
\* /status check starts no poller, so after a failed startup check there is no
\* poller and no autonomous message is delivered.
StatusCheckHandled ==
    /\ uiQueue # <<>>
    /\ Head(uiQueue).sig = "status_connected"
    /\ uiQueue' = Tail(uiQueue)
C23_OnePollerAfterStartupConnected ==
    /\ [](/\ pollers <= 1
          /\ pollers = 1 => healthWorkers[1].signalled = "connected"
          /\ healthWorkers[1].signalled = "failed"
                => (pollers = 0 /\ poller = "none" /\ autoCount = 0))
    /\ [][StatusCheckHandled => (pollers' = pollers /\ poller' = poller)]_vars
C23_Witness ==
    /\ healthWorkers[1].signalled = "failed"
    /\ Len(healthWorkers) = 2
    /\ healthWorkers[2].signalled = "connected"
    /\ uiQueue = <<>>
    /\ pollers = 0
    /\ autoCount = 0

\* C24: the health-worker handle is never replaced while the worker it refers
\* to is still running, and at most one HealthCheckWorker runs at any time.
RunningHealth == {w \in 1..Len(healthWorkers) : healthWorkers[w].state = "running"}
C24_HandleReplacedOnlyWhenIdle ==
    /\ [](Cardinality(RunningHealth) <= 1)
    /\ [][health_worker' # health_worker
            => healthWorkers[health_worker].state # "running"]_vars


=============================================================================
